---- MODULE Spec2Model ----
(***************************************************************************)
(* Memoryscape backend: the socket presence / room registry of             *)
(* src/socket/socketHandler.js and the HTTP mutation handlers of           *)
(* src/routes/memories.js and src/routes/capsules.js that emit through it. *)
(*                                                                         *)
(* JavaScript Map and Set keep insertion order and unique keys; both are   *)
(* modelled as sequences with the operations the code calls on them, so    *)
(* that uniqueness is something the handlers establish, not the notation.  *)
(***************************************************************************)
EXTENDS Integers, Sequences, FiniteSets, TLC

\* ------------------------------------------------------------- bounds
\* Socket connections ever opened (socket ids are never reused).
MaxSockets == 2
\* Ticks of the wall clock.
MaxClock == 2
\* Handlers suspended on the store at once, over all sockets.
MaxPending == 1

\* MemoryItem documents ever created.
MaxMemories == 2
\* HTTP requests under way at once.
MaxInFlight == 2

\* ---------------------------------------------------------- constants
Socks == 1 .. MaxSockets
\* The server itself as the origin of an emit (req.io / io).
Server == 0
\* The users of the User collection, and an id that resolves to no user.
Users == {"A", "B", "X"}
Ghost == "ghost"
NoUser == "none"
\* Capsule ids a client may send; "c3" resolves to no capsule until one is
\* created under that id.
CapsuleIds == {"c1", "c2", "c3"}
\* The order in which the store returns capsules (Capsule.find).
CapOrder == <<"c1", "c2", "c3">>
\* The ids MemoryItem documents get, in the order they are handed out.
MemIds == <<"m1", "m2", "m3", "m4">>
\* What a client may present as handshake.auth.token.
Tokens == {<<"none">>, <<"malformed">>, <<"expired">>}
            \cup {<<"jwt", u>> : u \in Users \cup {Ghost}}
\* timeDiff > 60 * 60 * 1000: the age beyond which the sweep drops an entry.
\* The wall clock advances in steps of that length, so that an entry is seen
\* exactly at, and beyond, the threshold.
StaleMs == 60 * 60 * 1000

VARIABLES
  conn,            \* socket id -> "new" | "open" | "refused" | "closed"
  sockUser,        \* socket.userId
  sockRooms,       \* socket.io adapter: the rooms each socket id is in
  activeUsers,     \* Map userId -> {socketId, user, joinedAt}
  capsuleRooms,    \* Map roomName -> Set of userId
  pendingJoin,     \* join_capsule handlers suspended on Capsule.findById
  pendingJoinAll,  \* join_capsules handlers suspended on Capsule.find
  clock,           \* new Date(), in ms
  capsules,        \* the Capsule collection
  memories,        \* the MemoryItem collection
  memSeq,          \* MemoryItem ids handed out so far
  inFlight,        \* HTTP handlers suspended between their read of the store
                   \* and their write to it
  last,            \* the handler that ran last: its name, caller and input, its
                   \* HTTP status, and the registry as it found it
  sent             \* the emit calls of the handler that ran last

vars == <<conn, sockUser, sockRooms, activeUsers, capsuleRooms, pendingJoin,
          pendingJoinAll, clock, capsules, memories, memSeq, inFlight, last, sent>>

\* The HTTP requests that can be under way at once, and the mark of a free one.
Requests == 1 .. MaxInFlight
Idle == [op |-> "idle"]

registry == <<activeUsers, capsuleRooms>>
store == <<capsules, memories, memSeq>>
sockets == <<conn, sockUser, sockRooms>>
pending == <<pendingJoin, pendingJoinAll>>

\* The record of a handler run, taken as the handler starts.
Ran(op, s, u, c, m, st) ==
  [op |-> op, sock |-> s, user |-> u, cid |-> c, mid |-> m, status |-> st,
   rooms |-> capsuleRooms, active |-> activeUsers]

\* ------------------------------------------------ Map / Set of JavaScript
Range(q) == {q[i] : i \in 1 .. Len(q)}

\* Set.prototype.has / add / delete on an insertion-ordered set.
SetHas(q, x) == \E i \in 1 .. Len(q) : q[i] = x
SetAddAlways(q, x) == Append(q, x)
SetAdd(q, x) == IF SetHas(q, x) THEN q ELSE Append(q, x)
SetDelete(q, x) == SelectSeq(q, LAMBDA y : y # x)

\* Map.prototype.has / get / set / delete on an insertion-ordered map, a
\* sequence of entries with a key field.
MapHas(m, k) == \E i \in 1 .. Len(m) : m[i].key = k
MapIndex(m, k) == CHOOSE i \in 1 .. Len(m) : m[i].key = k
MapGet(m, k) == m[MapIndex(m, k)]
MapSet(m, e) ==
  IF MapHas(m, e.key) THEN [m EXCEPT ![MapIndex(m, e.key)] = e] ELSE Append(m, e)
MapDelete(m, k) == SelectSeq(m, LAMBDA e : e.key # k)
MapKeys(m) == {m[i].key : i \in 1 .. Len(m)}

\* `capsule_${capsuleId}` and roomName.replace("capsule_", "")
RoomName(c) == <<"capsule_", c>>
CapsuleIdOf(room) == room[2]

\* ------------------------------------------------------- socket.io emits
Open == {s \in Socks : conn[s] = "open"}
\* The connections in a room: a socket id left in the adapter after its
\* socket has gone receives nothing.
SocketsIn(room) == {s \in Open : room \in sockRooms[s]}
\* socket.to(room): the room without the sender.
SocketTo(s, room) == SocketsIn(room) \ {s}
\* socket.broadcast: every connection but the sender.
SocketBroadcast(s) == Open \ {s}
\* socket.emit: the sender alone, if it is still connected.
SocketSelf(s) == {s} \cap Open
\* io.to(room) and io.emit: no sender to leave out.
IoToEveryone(room) == Open
IoTo(room) == SocketsIn(room)
IoAll == Open

\* One emit call: the event, the emitting socket (or Server), the connections
\* it is delivered to, and the payload (userId, capsuleId, further fields).
Emit(ev, from, to, user, cid, arg) ==
  [ev |-> ev, from |-> from, to |-> to, user |-> user, cid |-> cid, arg |-> arg,
   list |-> <<>>]

\* ------------------------------------------------------------- the store
Contributors(c) == capsules[c].contributors
IsContributor(c, u) == \E i \in 1 .. Len(Contributors(c)) : Contributors(c)[i].user = u
\* owner or listed contributor (join_capsule's hasAccess)
HasAccess(c, u) == capsules[c].owner = u \/ IsContributor(c, u)
\* Capsule.find({$or: [{owner}, {"contributors.user"}]})
UserCapsules(u) ==
  SelectSeq(CapOrder, LAMBDA c : c \in DOMAIN capsules /\ HasAccess(c, u))

\* The store as the server finds it: capsule c1 of A with contributor B and one
\* memory, capsule c2 of B alone; X belongs to no capsule.
InitCapsules ==
  [c \in {"c1", "c2"} |->
     IF c = "c1"
       THEN [owner |-> "A",
             contributors |-> <<[user |-> "A", role |-> "admin"],
                                [user |-> "B", role |-> "contributor"]>>,
             content |-> <<"m1">>,
             totalMemories |-> 1]
       ELSE [owner |-> "B",
             contributors |-> <<[user |-> "B", role |-> "admin"]>>,
             content |-> <<>>,
             totalMemories |-> 0]]

InitMemories ==
  "m1" :> [capsule |-> "c1", author |-> "B", isPinned |-> FALSE,
           reactions |-> <<>>, comments |-> <<>>]

Init ==
  /\ conn = [s \in Socks |-> "new"]
  /\ sockUser = [s \in Socks |-> NoUser]
  /\ sockRooms = [s \in Socks |-> {}]
  /\ activeUsers = <<>>
  /\ capsuleRooms = <<>>
  /\ pendingJoin = [s \in Socks |-> [c \in CapsuleIds |-> 0]]
  /\ pendingJoinAll = [s \in Socks |-> 0]
  /\ clock = 0
  /\ capsules = InitCapsules
  /\ memories = InitMemories
  /\ memSeq = 1
  /\ inFlight = [r \in Requests |-> Idle]
  /\ last = Ran("start", Server, NoUser, "", "", 0)
  /\ sent = <<>>

\* ------------------------------------------------------------ handshake
\* io.use: the error handed to next(), or "next" when the socket is let in.
AuthOutcomeNoUserCheck(tok, dbOk) ==
  IF tok[1] = "none" THEN "Authentication error"
  ELSE IF tok[1] # "jwt" THEN "Authentication error"
  ELSE IF ~dbOk THEN "Authentication error"
  ELSE "next"
AuthOutcome(tok, dbOk) ==
  IF tok[1] = "none" THEN "Authentication error"
  ELSE IF tok[1] # "jwt" THEN "Authentication error"
  ELSE IF ~dbOk THEN "Authentication error"
  ELSE IF tok[2] \notin Users THEN "User not found"
  ELSE "next"

\* activeUsers.set(socket.userId, {socketId, user, joinedAt})
RegisterAppend(m, u, s, now) ==
  Append(m, [key |-> u, socketId |-> s, joinedAt |-> now])
Register(m, u, s, now) ==
  MapSet(m, [key |-> u, socketId |-> s, joinedAt |-> now])

\* activeUsers.delete(socket.userId)
UnregisterForgotten(m, u) == m
Unregister(m, u) == MapDelete(m, u)

\* A client opens a connection: the middleware, then the connection handler.
Handshake(s, tok, dbOk) ==
  /\ conn[s] = "new"
  /\ \A t \in Socks : t < s => conn[t] # "new"
  /\ IF AuthOutcome(tok, dbOk) = "next"
       THEN /\ conn' = [conn EXCEPT ![s] = "open"]
            /\ sockUser' = [sockUser EXCEPT ![s] = tok[2]]
            /\ activeUsers' = Register(activeUsers, tok[2], s, clock)
            /\ sent' = <<Emit("user_online", s, SocketBroadcast(s), tok[2], "", <<>>)>>
            /\ last' = Ran("connection", s, tok[2], "", "", 0)
       ELSE /\ conn' = [conn EXCEPT ![s] = "refused"]
            /\ sent' = <<>>
            /\ last' = Ran("refused", s, NoUser, "", "", 0)
            /\ UNCHANGED <<sockUser, activeUsers>>
  /\ UNCHANGED <<sockRooms, capsuleRooms, pending, clock, store, inFlight>>

\* ------------------------------------------------------- room membership
\* if (!capsuleRooms.has(r)) capsuleRooms.set(r, new Set()); capsuleRooms.get(r).add(u)
RoomAddAlways(rooms, r, u) ==
  LET m == IF MapHas(rooms, r) THEN rooms
           ELSE MapSet(rooms, [key |-> r, users |-> <<>>])
  IN  [m EXCEPT ![MapIndex(m, r)].users = Append(@, u)]
RoomAdd(rooms, r, u) ==
  LET m == IF MapHas(rooms, r) THEN rooms
           ELSE MapSet(rooms, [key |-> r, users |-> <<>>])
  IN  [m EXCEPT ![MapIndex(m, r)].users = SetAdd(@, u)]

\* leave_capsule: delete the user, and the room when its set is empty.
RoomRemoveKeepEmpty(rooms, r, u) ==
  IF MapHas(rooms, r)
    THEN [rooms EXCEPT ![MapIndex(rooms, r)].users = SetDelete(@, u)]
    ELSE rooms
RoomRemove(rooms, r, u) ==
  IF MapHas(rooms, r)
    THEN LET i == MapIndex(rooms, r)
             m == [rooms EXCEPT ![i].users = SetDelete(@, u)]
         IN  IF Len(m[i].users) = 0 THEN MapDelete(m, r) ELSE m
    ELSE rooms

\* disconnect: capsuleRooms.forEach, for the rooms that hold the user.
RoomsOf(rooms, u) == SelectSeq(rooms, LAMBDA e : SetHas(e.users, u))
DisconnectRoomsFirstOnly(rooms, u) ==
  IF RoomsOf(rooms, u) = <<>> THEN rooms
  ELSE RoomRemove(rooms, RoomsOf(rooms, u)[1].key, u)
DisconnectRooms(rooms, u) ==
  LET kept == SelectSeq(rooms,
                LAMBDA e : ~(SetHas(e.users, u) /\ Len(SetDelete(e.users, u)) = 0))
  IN  [i \in 1 .. Len(kept) |->
         IF SetHas(kept[i].users, u)
           THEN [kept[i] EXCEPT !.users = SetDelete(@, u)]
           ELSE kept[i]]

\* userCapsules.forEach of join_capsules, on capsuleRooms.
RECURSIVE JoinAllRooms(_, _, _)
JoinAllRooms(rooms, caps, u) ==
  IF caps = <<>> THEN rooms
  ELSE JoinAllRooms(RoomAdd(rooms, RoomName(Head(caps)), u), Tail(caps), u)

\* getActiveUsers / getActiveUsersInCapsule / isUserOnline
getActiveUsers == activeUsers
ActiveEntries(users) ==
  LET known == SelectSeq(users, LAMBDA u : MapHas(activeUsers, u))
  IN  [i \in 1 .. Len(known) |-> MapGet(activeUsers, known[i])]
getActiveUsersInCapsule(c) ==
  IF ~MapHas(capsuleRooms, RoomName(c)) THEN <<>>
  ELSE ActiveEntries(MapGet(capsuleRooms, RoomName(c)).users)
isUserOnline(u) == MapHas(activeUsers, u)

\* -------------------------------------------------------- join_capsules
RECURSIVE SumOver(_, _)
SumOver(f, S) ==
  IF S = {} THEN 0 ELSE LET x == CHOOSE y \in S : TRUE IN f[x] + SumOver(f, S \ {x})
\* The handlers now suspended on a store lookup.
PendingTotal ==
  SumOver(pendingJoinAll, Socks)
    + SumOver([s \in Socks |-> SumOver(pendingJoin[s], CapsuleIds)], Socks)

JoinCapsulesReq(s) ==
  /\ conn[s] = "open"
  /\ PendingTotal < MaxPending
  /\ pendingJoinAll' = [pendingJoinAll EXCEPT ![s] = @ + 1]
  /\ sent' = <<>>
  /\ last' = Ran("join_capsules:await", s, sockUser[s], "", "", 0)
  /\ UNCHANGED <<sockets, registry, pendingJoin, clock, store, inFlight>>

\* The emits of join_capsules for the capsules the store returned.
JoinCapsulesEmitsNothing(s, caps) == <<>>
JoinCapsulesEmits(s, caps) ==
  [i \in 1 .. Len(caps) |->
     Emit("user_joined_capsule", s, SocketTo(s, RoomName(caps[i])), sockUser[s],
          caps[i], <<>>)]

\* Capsule.find has answered (or thrown): the rest of the handler.
JoinCapsulesResume(s, dbOk) ==
  /\ pendingJoinAll[s] > 0
  /\ pendingJoinAll' = [pendingJoinAll EXCEPT ![s] = @ - 1]
  /\ IF dbOk
       THEN LET caps == UserCapsules(sockUser[s])
            IN  /\ sockRooms' = [sockRooms EXCEPT
                                   ![s] = @ \cup {RoomName(c) : c \in Range(caps)}]
                /\ capsuleRooms' = JoinAllRooms(capsuleRooms, caps, sockUser[s])
                /\ sent' = JoinCapsulesEmits(s, caps)
       ELSE /\ sent' = <<Emit("error", s, SocketSelf(s), sockUser[s], "",
                              <<"Failed to join capsules">>)>>
            /\ UNCHANGED <<sockRooms, capsuleRooms>>
  /\ last' = Ran("join_capsules", s, sockUser[s], "", "", 0)
  /\ UNCHANGED <<conn, sockUser, activeUsers, pendingJoin, clock, store, inFlight>>

\* --------------------------------------------------------- join_capsule
JoinCapsuleReq(s, c) ==
  /\ conn[s] = "open"
  /\ PendingTotal < MaxPending
  /\ pendingJoin' = [pendingJoin EXCEPT ![s][c] = @ + 1]
  /\ sent' = <<>>
  /\ last' = Ran("join_capsule:await", s, sockUser[s], c, "", 0)
  /\ UNCHANGED <<sockets, registry, pendingJoinAll, clock, store, inFlight>>

\* The join_capsule handlers of user u for capsule c suspended on the lookup.
PendingFor(u, c) ==
  SumOver([s \in Socks |-> IF sockUser[s] = u THEN pendingJoin[s][c] ELSE 0], Socks)
\* A join_capsule(c) that arrives while another join_capsule(c) of the same
\* user is suspended on Capsule.findById: the two run concurrently.
JoinCapsuleReqConcurrent(s, c) ==
  /\ conn[s] = "open"
  /\ PendingFor(sockUser[s], c) > 0
  /\ PendingTotal < MaxPending + 1
  /\ pendingJoin' = [pendingJoin EXCEPT ![s][c] = @ + 1]
  /\ sent' = <<>>
  /\ last' = Ran("join_capsule:await", s, sockUser[s], c, "", 0)
  /\ UNCHANGED <<sockets, registry, pendingJoinAll, clock, store, inFlight>>

\* What becomes of a join_capsule once Capsule.findById has answered: the
\* message of the error event, or "joined".
JoinOutcomeNoAccessCheck(s, c, dbOk) ==
  IF ~dbOk THEN "Failed to join capsule"
  ELSE IF c \notin DOMAIN capsules THEN "Capsule not found"
  ELSE "joined"
JoinOutcome(s, c, dbOk) ==
  IF ~dbOk THEN "Failed to join capsule"
  ELSE IF c \notin DOMAIN capsules THEN "Capsule not found"
  ELSE IF ~HasAccess(c, sockUser[s]) THEN "Access denied"
  ELSE "joined"

\* The emits of a join that went through: capsule_joined to the caller with
\* the room's active users (after the add), user_joined_capsule to the others.
JoinCapsuleEmits(s, c, rooms) ==
  << [Emit("capsule_joined", s, SocketSelf(s), sockUser[s], c, <<>>)
        EXCEPT !.list = ActiveEntries(MapGet(rooms, RoomName(c)).users)],
     Emit("user_joined_capsule", s, SocketTo(s, RoomName(c)), sockUser[s], c, <<>>) >>

JoinCapsuleResume(s, c, dbOk) ==
  /\ pendingJoin[s][c] > 0
  /\ pendingJoin' = [pendingJoin EXCEPT ![s][c] = @ - 1]
  /\ IF JoinOutcome(s, c, dbOk) = "joined"
       THEN /\ sockRooms' = [sockRooms EXCEPT ![s] = @ \cup {RoomName(c)}]
            /\ capsuleRooms' = RoomAdd(capsuleRooms, RoomName(c), sockUser[s])
            /\ sent' = JoinCapsuleEmits(s, c, capsuleRooms')
       ELSE /\ sent' = <<Emit("error", s, SocketSelf(s), sockUser[s], "",
                              <<JoinOutcome(s, c, dbOk)>>)>>
            /\ UNCHANGED <<sockRooms, capsuleRooms>>
  /\ last' = Ran("join_capsule", s, sockUser[s], c, "", 0)
  /\ UNCHANGED <<conn, sockUser, activeUsers, pendingJoinAll, clock, store, inFlight>>

\* -------------------------------------------------------- leave_capsule
LeaveCapsule(s, c) ==
  /\ conn[s] = "open"
  /\ sockRooms' = [sockRooms EXCEPT ![s] = @ \ {RoomName(c)}]
  /\ capsuleRooms' = RoomRemove(capsuleRooms, RoomName(c), sockUser[s])
  /\ sent' = <<Emit("user_left_capsule", s, SocketTo(s, RoomName(c)), sockUser[s],
                    c, <<>>)>>
  /\ last' = Ran("leave_capsule", s, sockUser[s], c, "", 0)
  /\ UNCHANGED <<conn, sockUser, activeUsers, pending, clock, store, inFlight>>

\* ------------------- typing_start, typing_stop, live_reaction, viewing_memory
RoomEvents == {<<"typing_start", "user_typing", "true">>,
               <<"typing_stop", "user_typing", "false">>,
               <<"live_reaction", "live_reaction", "emoji">>,
               <<"viewing_memory", "user_viewing_memory", "">>}

\* The audience of the four room events: socket.to(roomName).
RoomEventAudienceWithSender(s, c) == IoTo(RoomName(c))
RoomEventAudience(s, c) == SocketTo(s, RoomName(c))

RoomEvent(s, c, e) ==
  /\ conn[s] = "open"
  /\ sent' = <<Emit(e[2], s, RoomEventAudience(s, c), sockUser[s], c, <<e[1], e[3]>>)>>
  /\ last' = Ran(e[1], s, sockUser[s], c, "", 0)
  /\ UNCHANGED <<sockets, registry, pending, clock, store, inFlight>>

\* ----------------------------------------------------------- disconnect
\* The emits of the disconnect handler: user_left_capsule per room that held
\* the user, in capsuleRooms order, then user_offline to everyone else.
DisconnectEmitsOfflineOnly(s, rooms) ==
  <<Emit("user_offline", s, SocketBroadcast(s), sockUser[s], "", <<>>)>>
DisconnectEmitsOfflineFirst(s, rooms) ==
  LET hit == RoomsOf(rooms, sockUser[s])
  IN  <<Emit("user_offline", s, SocketBroadcast(s), sockUser[s], "", <<>>)>>
      \o [i \in 1 .. Len(hit) |->
            Emit("user_left_capsule", s, SocketTo(s, hit[i].key), sockUser[s],
                 CapsuleIdOf(hit[i].key), <<>>)]
DisconnectEmits(s, rooms) ==
  LET hit == RoomsOf(rooms, sockUser[s])
  IN  [i \in 1 .. Len(hit) |->
         Emit("user_left_capsule", s, SocketTo(s, hit[i].key), sockUser[s],
              CapsuleIdOf(hit[i].key), <<>>)]
      \o <<Emit("user_offline", s, SocketBroadcast(s), sockUser[s], "", <<>>)>>

\* The socket has left its rooms and the namespace when the handler runs.
Disconnect(s) ==
  /\ conn[s] = "open"
  /\ conn' = [conn EXCEPT ![s] = "closed"]
  /\ sockRooms' = [sockRooms EXCEPT ![s] = {}]
  /\ activeUsers' = Unregister(activeUsers, sockUser[s])
  /\ capsuleRooms' = DisconnectRooms(capsuleRooms, sockUser[s])
  /\ sent' = DisconnectEmits(s, capsuleRooms)
  /\ last' = Ran("disconnect", s, sockUser[s], "", "", 0)
  /\ UNCHANGED <<sockUser, pending, clock, store, inFlight>>

\* ------------------------------------------------------- periodic sweep
Stale(e, now) == now - e.joinedAt > StaleMs
Sweep ==
  /\ activeUsers' = SelectSeq(activeUsers, LAMBDA e : ~Stale(e, clock))
  /\ sent' = <<>>
  /\ last' = Ran("sweep", Server, NoUser, "", "", 0)
  /\ UNCHANGED <<sockets, capsuleRooms, pending, clock, store, inFlight>>

Tick ==
  /\ clock < MaxClock * StaleMs
  /\ clock' = clock + StaleMs
  /\ sent' = <<>>
  /\ last' = Ran("tick", Server, NoUser, "", "", 0)
  /\ UNCHANGED <<sockets, registry, pending, store, inFlight>>

\* --------------------------------------------------------- specification
\* The presence and room registry: every handler that reads or writes
\* activeUsers and capsuleRooms, and the clock the sweep reads.
Next ==
  \/ \E s \in Socks, tok \in Tokens, dbOk \in BOOLEAN : Handshake(s, tok, dbOk)
  \/ \E s \in Socks : JoinCapsulesReq(s)
  \/ \E s \in Socks, dbOk \in BOOLEAN : JoinCapsulesResume(s, dbOk)
  \/ \E s \in Socks, c \in CapsuleIds : JoinCapsuleReq(s, c)
  \/ \E s \in Socks, c \in CapsuleIds, dbOk \in BOOLEAN : JoinCapsuleResume(s, c, dbOk)
  \/ \E s \in Socks, c \in CapsuleIds : LeaveCapsule(s, c)
  \/ \E s \in Socks : Disconnect(s)
  \/ Sweep
  \/ Tick

Spec == Init /\ [][Next]_vars

\* Connections, rooms and the four room events, with the clock standing still:
\* the sweep and the clock touch neither the connections nor the rooms.
NextSession ==
  \/ \E s \in Socks, tok \in Tokens, dbOk \in BOOLEAN : Handshake(s, tok, dbOk)
  \/ \E s \in Socks : JoinCapsulesReq(s)
  \/ \E s \in Socks, dbOk \in BOOLEAN : JoinCapsulesResume(s, dbOk)
  \/ \E s \in Socks, c \in CapsuleIds : JoinCapsuleReq(s, c)
  \/ \E s \in Socks, c \in CapsuleIds, dbOk \in BOOLEAN : JoinCapsuleResume(s, c, dbOk)
  \/ \E s \in Socks, c \in CapsuleIds : LeaveCapsule(s, c)
  \/ \E s \in Socks, c \in CapsuleIds, e \in RoomEvents : RoomEvent(s, c, e)
  \/ \E s \in Socks : Disconnect(s)

SpecSession == Init /\ [][NextSession]_vars

\* ======================================================================
\* HTTP mutation handlers (req.user is the authenticated caller). failAt
\* numbers the store call that throws, 0 for none; what was written before
\* it stays written, and the catch answers 500.
\* ======================================================================
BoolStr(b) == IF b THEN "true" ELSE "false"
IsAdmin(c, u) ==
  \E i \in 1 .. Len(Contributors(c)) :
    Contributors(c)[i].user = u /\ Contributors(c)[i].role = "admin"
HttpUnchanged == UNCHANGED <<sockets, registry, pending, clock, inFlight>>

\* ------------------------------------------------- POST /api/memories/:id/pin
\* The status the handler answers with.
PinStatus(u, m, failAt) ==
  IF failAt = 1 THEN 500
  ELSE IF m \notin DOMAIN memories THEN 404
  ELSE IF failAt = 2 \/ memories[m].capsule \notin DOMAIN capsules THEN 500
  ELSE IF ~(capsules[memories[m].capsule].owner = u \/ IsAdmin(memories[m].capsule, u))
    THEN 403
  ELSE IF failAt = 3 THEN 500
  ELSE 200
\* req.io.to(`capsule_${memory.capsule}`)
PinAudienceEveryone(m) == IoAll
PinAudience(m) == IoTo(RoomName(memories[m].capsule))

HttpPin(u, m, failAt) ==
  /\ last' = Ran("pin", Server, u, "", m, PinStatus(u, m, failAt))
  /\ IF PinStatus(u, m, failAt) = 200
       THEN /\ memories' = [memories EXCEPT ![m].isPinned = ~@]
            /\ sent' = <<Emit("memory_pinned", Server, PinAudience(m), u,
                              memories[m].capsule, <<m, BoolStr(memories'[m].isPinned)>>)>>
       ELSE /\ sent' = <<>>
            /\ UNCHANGED memories
  /\ UNCHANGED <<capsules, memSeq>>
  /\ HttpUnchanged

\* ------------------------------------------------------- POST /api/memories
\* How far the handler gets: the status, and whether memory.save() and the
\* capsule's stats update were done.
CreateMemoryStatus(u, c, failAt) ==
  IF failAt = 1 THEN 500
  ELSE IF c \notin DOMAIN capsules THEN 404
  ELSE IF ~HasAccess(c, u) THEN 403
  ELSE IF failAt \in {2, 3, 4} THEN 500
  ELSE 201
CreateMemoryBuilt(u, c, failAt) ==
  failAt # 1 /\ c \in DOMAIN capsules /\ HasAccess(c, u)
CreateMemorySaved(u, c, failAt) ==
  CreateMemoryBuilt(u, c, failAt) /\ failAt # 2
CreateMemoryCounted(u, c, failAt) ==
  CreateMemorySaved(u, c, failAt) /\ failAt # 3

HttpCreateMemory(u, c, failAt) ==
  /\ memSeq < MaxMemories
  /\ LET m == MemIds[memSeq + 1]
     IN  /\ last' = Ran("create_memory", Server, u, c, m, CreateMemoryStatus(u, c, failAt))
         /\ memSeq' = IF CreateMemoryBuilt(u, c, failAt) THEN memSeq + 1 ELSE memSeq
         /\ memories' = IF CreateMemorySaved(u, c, failAt)
                          THEN memories @@ (m :> [capsule |-> c, author |-> u,
                                                  isPinned |-> FALSE,
                                                  reactions |-> <<>>,
                                                  comments |-> <<>>])
                          ELSE memories
         /\ capsules' = IF CreateMemoryCounted(u, c, failAt)
                          THEN [capsules EXCEPT ![c].content = Append(@, m),
                                                ![c].totalMemories = @ + 1]
                          ELSE capsules
         /\ sent' = IF CreateMemoryStatus(u, c, failAt) = 201
                      THEN <<Emit("new_memory", Server, IoTo(RoomName(c)), u, c, <<m>>)>>
                      ELSE <<>>
  /\ HttpUnchanged

\* ------------------------------------------------- DELETE /api/memories/:id
DeleteMemoryStatus(u, m, failAt) ==
  IF failAt = 1 THEN 500
  ELSE IF m \notin DOMAIN memories THEN 404
  ELSE IF failAt = 2 \/ memories[m].capsule \notin DOMAIN capsules THEN 500
  ELSE IF ~(\/ memories[m].author = u
            \/ capsules[memories[m].capsule].owner = u
            \/ IsAdmin(memories[m].capsule, u))
    THEN 403
  ELSE IF failAt \in {3, 4} THEN 500
  ELSE 200
DeleteMemoryDeleted(u, m, failAt) ==
  DeleteMemoryStatus(u, m, failAt) = 200
    \/ (failAt = 4 /\ DeleteMemoryStatus(u, m, 0) = 200)

HttpDeleteMemory(u, m, failAt) ==
  /\ last' = Ran("delete_memory", Server, u, "", m, DeleteMemoryStatus(u, m, failAt))
  /\ memories' = IF DeleteMemoryDeleted(u, m, failAt)
                   THEN [x \in DOMAIN memories \ {m} |-> memories[x]]
                   ELSE memories
  /\ capsules' = IF DeleteMemoryStatus(u, m, failAt) = 200
                   THEN [capsules EXCEPT
                           ![memories[m].capsule].content = SetDelete(@, m),
                           ![memories[m].capsule].totalMemories = @ - 1]
                   ELSE capsules
  /\ sent' = IF DeleteMemoryStatus(u, m, failAt) = 200
               THEN <<Emit("memory_deleted", Server, IoTo(RoomName(memories[m].capsule)),
                           u, memories[m].capsule, <<m>>)>>
               ELSE <<>>
  /\ UNCHANGED memSeq
  /\ HttpUnchanged

\* ------------------------------------------------------- POST /api/capsules
\* The id the new capsule gets: the first of CapOrder not in the store.
FreeCapsuleIds == {i \in 1 .. Len(CapOrder) : CapOrder[i] \notin DOMAIN capsules}
CreateCapsuleStatus(u, failAt) == IF failAt = 0 THEN 201 ELSE 500

HttpCreateCapsule(u, failAt) ==
  /\ FreeCapsuleIds # {}
  /\ LET c == CapOrder[CHOOSE i \in FreeCapsuleIds : \A j \in FreeCapsuleIds : i <= j]
     IN  /\ last' = Ran("create_capsule", Server, u, c, "", CreateCapsuleStatus(u, failAt))
         /\ capsules' = IF failAt = 1 THEN capsules
                        ELSE capsules @@ (c :> [owner |-> u,
                                                contributors |->
                                                  <<[user |-> u, role |-> "admin"]>>,
                                                content |-> <<>>,
                                                totalMemories |-> 0])
         /\ sent' = IF CreateCapsuleStatus(u, failAt) = 201
                      THEN <<Emit("capsule_created", Server, IoAll, u, c, <<>>)>>
                      ELSE <<>>
  /\ UNCHANGED <<memories, memSeq>>
  /\ HttpUnchanged

\* ------------------------------------------------ POST /api/capsules/:id/join
\* invite is "bad" when the capsule is private and req.body.inviteCode is not
\* its invite code.
JoinStatus(u, c, invite, failAt) ==
  IF failAt = 1 THEN 500
  ELSE IF c \notin DOMAIN capsules THEN 404
  ELSE IF invite = "bad" THEN 400
  ELSE IF IsContributor(c, u) THEN 400
  ELSE IF failAt \in {2, 3, 4} THEN 500
  ELSE 200
JoinSaved(u, c, invite, failAt) ==
  JoinStatus(u, c, invite, 0) = 200 /\ failAt \in {0, 3, 4}

HttpJoin(u, c, invite, failAt) ==
  /\ last' = Ran("http_join", Server, u, c, "", JoinStatus(u, c, invite, failAt))
  /\ capsules' = IF JoinSaved(u, c, invite, failAt)
                   THEN [capsules EXCEPT ![c].contributors =
                           Append(@, [user |-> u, role |-> "contributor"])]
                   ELSE capsules
  /\ sent' = IF JoinStatus(u, c, invite, failAt) = 200
               THEN <<Emit("user_joined", Server, IoTo(RoomName(c)), u, c, <<>>)>>
               ELSE <<>>
  /\ UNCHANGED <<memories, memSeq>>
  /\ HttpUnchanged

\* ---------------------------------------------- checkCapsulePermission(role)
\* The middleware looks the capsule up by req.params.capsuleId. The routes
\* that use it name their parameter :id, so that lookup is findById(undefined),
\* which finds no document.
ParamCapsuleId == "undefined"
RoleRank(role) ==
  CASE role = "viewer" -> 1
    [] role = "contributor" -> 2
    [] role = "admin" -> 3
    [] role = "owner" -> 4
RoleOf(c, u) ==
  Contributors(c)[CHOOSE i \in 1 .. Len(Contributors(c)) : Contributors(c)[i].user = u].role
CheckCapsulePermissionNoRank(p, u, requiredRole, dbOk) ==
  IF ~dbOk THEN 500
  ELSE IF p \notin DOMAIN capsules THEN 404
  ELSE IF capsules[p].owner = u THEN 0
  ELSE IF ~IsContributor(p, u) THEN 403
  ELSE 0
\* The status answered, or 0 when the request is passed on with next().
CheckCapsulePermission(p, u, requiredRole, dbOk) ==
  IF ~dbOk THEN 500
  ELSE IF p \notin DOMAIN capsules THEN 404
  ELSE IF capsules[p].owner = u THEN 0
  ELSE IF ~IsContributor(p, u) THEN 403
  ELSE IF RoleRank(RoleOf(p, u)) < RoleRank(requiredRole) THEN 403
  ELSE 0

\* -------------------------------------------- DELETE /api/capsules/:id/leave
LeaveStatus(u, c, failAt) ==
  IF CheckCapsulePermission(ParamCapsuleId, u, "contributor", failAt # 1) # 0
    THEN CheckCapsulePermission(ParamCapsuleId, u, "contributor", failAt # 1)
  ELSE IF failAt = 2 \/ c \notin DOMAIN capsules THEN 500
  ELSE IF capsules[c].owner = u THEN 400
  ELSE IF failAt \in {3, 4} THEN 500
  ELSE 200
LeaveSaved(u, c, failAt) ==
  LeaveStatus(u, c, failAt) = 200 \/ (failAt = 4 /\ LeaveStatus(u, c, 0) = 200)

HttpLeave(u, c, failAt) ==
  /\ last' = Ran("http_leave", Server, u, c, "", LeaveStatus(u, c, failAt))
  /\ capsules' = IF LeaveSaved(u, c, failAt)
                   THEN [capsules EXCEPT ![c].contributors =
                           SelectSeq(@, LAMBDA e : e.user # u)]
                   ELSE capsules
  /\ sent' = IF LeaveStatus(u, c, failAt) = 200
               THEN <<Emit("user_left", Server, IoTo(RoomName(c)), u, c, <<>>)>>
               ELSE <<>>
  /\ UNCHANGED <<memories, memSeq>>
  /\ HttpUnchanged

\* The memory and capsule handlers alone, with no connection open.
NextHttp ==
  \/ \E u \in Users, m \in Range(MemIds), failAt \in 0 .. 3 : HttpPin(u, m, failAt)
  \/ \E u \in Users, c \in CapsuleIds, failAt \in 0 .. 4 : HttpCreateMemory(u, c, failAt)
  \/ \E u \in Users, m \in Range(MemIds), failAt \in 0 .. 4 : HttpDeleteMemory(u, m, failAt)
  \/ \E u \in Users, failAt \in 0 .. 3 : HttpCreateCapsule(u, failAt)

SpecHttp == Init /\ [][NextHttp]_vars

\* ------------------------------------------------------ authenticateToken
\* The middleware mounted before the capsule and memory routers: the status
\* it answers, or 0 when it sets req.user and calls next(). authFail is 1 when
\* User.findById throws, 2 when user.save() throws, 0 when neither does.
AuthenticateTokenNoUserCheck(tok, authFail) ==
  IF tok[1] = "none" THEN 401
  ELSE IF tok[1] \in {"malformed", "expired"} THEN 401
  ELSE IF authFail # 0 THEN 500
  ELSE 0
AuthenticateToken(tok, authFail) ==
  IF tok[1] = "none" THEN 401
  ELSE IF tok[1] \in {"malformed", "expired"} THEN 401
  ELSE IF authFail = 1 THEN 500
  ELSE IF tok[2] \notin Users THEN 401
  ELSE IF authFail = 2 THEN 500
  ELSE 0

\* The middleware has answered: no route handler runs.
HttpDenied(st) ==
  /\ last' = Ran("http_denied", Server, NoUser, "", "", st)
  /\ sent' = <<>>
  /\ UNCHANGED store
  /\ HttpUnchanged

\* A request to a route: the middleware, then the handler with req.user.
PinRequest(tok, authFail, m, failAt) ==
  IF AuthenticateToken(tok, authFail) = 0
    THEN HttpPin(tok[2], m, failAt)
    ELSE HttpDenied(AuthenticateToken(tok, authFail))
CreateMemoryRequest(tok, authFail, c, failAt) ==
  IF AuthenticateToken(tok, authFail) = 0
    THEN HttpCreateMemory(tok[2], c, failAt)
    ELSE HttpDenied(AuthenticateToken(tok, authFail))
CreateCapsuleRequest(tok, authFail, failAt) ==
  IF AuthenticateToken(tok, authFail) = 0
    THEN HttpCreateCapsule(tok[2], failAt)
    ELSE HttpDenied(AuthenticateToken(tok, authFail))

\* Requests as clients send them, with whatever token they carry.
NextAuth ==
  \/ \E tok \in Tokens, authFail \in 0 .. 2, m \in Range(MemIds), failAt \in 0 .. 3 :
       PinRequest(tok, authFail, m, failAt)
  \/ \E tok \in Tokens, authFail \in 0 .. 2, c \in CapsuleIds, failAt \in 0 .. 4 :
       CreateMemoryRequest(tok, authFail, c, failAt)
  \/ \E tok \in Tokens, authFail \in 0 .. 2, failAt \in 0 .. 3 :
       CreateCapsuleRequest(tok, authFail, failAt)

SpecAuth == Init /\ [][NextAuth]_vars

\* The capsule handlers that change who belongs to a capsule.
NextMembers ==
  \/ \E u \in Users, failAt \in 0 .. 3 : HttpCreateCapsule(u, failAt)
  \/ \E u \in Users, c \in CapsuleIds, invite \in {"ok", "bad"}, failAt \in 0 .. 4 :
       HttpJoin(u, c, invite, failAt)
  \/ \E u \in Users, c \in CapsuleIds, failAt \in 0 .. 4 : HttpLeave(u, c, failAt)

SpecMembers == Init /\ [][NextMembers]_vars

\* Connections joining and leaving rooms while memories are pinned.
NextPin ==
  \/ \E s \in Socks, tok \in Tokens, dbOk \in BOOLEAN : Handshake(s, tok, dbOk)
  \/ \E s \in Socks, c \in CapsuleIds : JoinCapsuleReq(s, c)
  \/ \E s \in Socks, c \in CapsuleIds, dbOk \in BOOLEAN : JoinCapsuleResume(s, c, dbOk)
  \/ \E s \in Socks, c \in CapsuleIds : LeaveCapsule(s, c)
  \/ \E s \in Socks : Disconnect(s)
  \/ \E u \in Users, m \in Range(MemIds), failAt \in 0 .. 3 : HttpPin(u, m, failAt)

SpecPin == Init /\ [][NextPin]_vars

\* Connections whose join_capsule requests overlap.
NextRace ==
  \/ \E s \in Socks, tok \in Tokens, dbOk \in BOOLEAN : Handshake(s, tok, dbOk)
  \/ \E s \in Socks, c \in CapsuleIds : JoinCapsuleReq(s, c)
  \/ \E s \in Socks, c \in CapsuleIds : JoinCapsuleReqConcurrent(s, c)
  \/ \E s \in Socks, c \in CapsuleIds, dbOk \in BOOLEAN : JoinCapsuleResume(s, c, dbOk)
  \/ \E s \in Socks, c \in CapsuleIds : LeaveCapsule(s, c)
  \/ \E s \in Socks : Disconnect(s)

SpecRace == Init /\ [][NextRace]_vars

\* Connections joining rooms, going and coming back while memories are created.
NextLive ==
  \/ \E s \in Socks, tok \in Tokens, dbOk \in BOOLEAN : Handshake(s, tok, dbOk)
  \/ \E s \in Socks, c \in CapsuleIds : JoinCapsuleReq(s, c)
  \/ \E s \in Socks, c \in CapsuleIds, dbOk \in BOOLEAN : JoinCapsuleResume(s, c, dbOk)
  \/ \E s \in Socks : Disconnect(s)
  \/ \E u \in Users, c \in CapsuleIds, failAt \in 0 .. 4 : HttpCreateMemory(u, c, failAt)

SpecLive == Init /\ [][NextLive]_vars

\* ======================================================================
\* Properties
\* ======================================================================
\* The user ids a room of capsuleRooms holds (none when the room is absent).
Members(rooms, c) ==
  IF MapHas(rooms, RoomName(c)) THEN Range(MapGet(rooms, RoomName(c)).users) ELSE {}
\* The indices of the emits of an event.
EmitsOf(ev) == {i \in 1 .. Len(sent) : sent[i].ev = ev}
Authorised(c, u) == c \in DOMAIN capsules /\ HasAccess(c, u)
StoreFailed == Len(sent) = 1 /\ sent[1].ev = "error"
                 /\ sent[1].arg \in {<<"Failed to join capsule">>, <<"Failed to join capsules">>}

\* C1: once a join_capsule(c) of a connected user u has completed (its store
\* lookup having answered), getActiveUsersInCapsule(c) holds u's entry if u is
\* owner or contributor of c, and does not hold it if u is neither.
C1_JoinedUserIsActiveMember ==
  (last.op = "join_capsule" /\ conn[last.sock] = "open" /\ ~StoreFailed)
    => (last.user \in MapKeys(getActiveUsersInCapsule(last.cid))
          <=> Authorised(last.cid, last.user))

\* C2: a disconnect of user u takes u out of every room it was in; a room left
\* empty by that is deleted from capsuleRooms and answers no query, and every
\* other room keeps exactly its other members.
C2_DisconnectLeavesEveryRoom ==
  last.op = "disconnect" =>
    \A c \in CapsuleIds :
      LET rest == Members(last.rooms, c) \ {last.user}
      IN  /\ Members(capsuleRooms, c) = rest
          /\ rest = {} => /\ ~MapHas(capsuleRooms, RoomName(c))
                          /\ getActiveUsersInCapsule(c) = <<>>
C2_Witness ==
  /\ last.op = "disconnect"
  /\ Cardinality({c \in CapsuleIds : last.user \in Members(last.rooms, c)}) = 2
  /\ \E c \in CapsuleIds : /\ Members(last.rooms, c) = {last.user}
                           /\ ~MapHas(capsuleRooms, RoomName(c))
  /\ \E c \in CapsuleIds : /\ last.user \in Members(last.rooms, c)
                           /\ Members(capsuleRooms, c) # {}

\* C3: no room of capsuleRooms has an empty member set, in any reachable
\* state; and after leave_capsule(c) by u, u is neither in the room's set nor
\* in getActiveUsersInCapsule(c).
C3_LeaveRemovesAndNoEmptyRoom ==
  /\ \A i \in 1 .. Len(capsuleRooms) : capsuleRooms[i].users # <<>>
  /\ last.op = "leave_capsule" =>
       /\ last.user \notin Members(capsuleRooms, last.cid)
       /\ last.user \notin MapKeys(getActiveUsersInCapsule(last.cid))
C3_Witness ==
  /\ last.op = "leave_capsule"
  /\ Members(last.rooms, last.cid) = {last.user}
  /\ MapHas(last.active, last.user)
  /\ ~MapHas(capsuleRooms, RoomName(last.cid))

C5_RoomEventExcludesSender ==
  last.op \in {e[1] : e \in RoomEvents} =>
    /\ Len(sent) = 1
    /\ \E e \in RoomEvents : e[1] = last.op /\ sent[1].ev = e[2]
    /\ sent[1].user = last.user /\ sent[1].cid = last.cid
    /\ sent[1].to = SocketsIn(RoomName(last.cid)) \ {last.sock}
C5_Witness ==
  /\ last.op = "typing_start"
  /\ last.sock \in SocketsIn(RoomName(last.cid))
  /\ sent[1].to # {}

\* C7: when a connection of user A disconnects while A is in the member set of
\* room c, every other connection in room c gets exactly one user_left_capsule
\* naming A and c, and A is not in the member set of c afterwards.
C7_DisconnectNotifiesRoom ==
  last.op = "disconnect" =>
    \A c \in CapsuleIds :
      last.user \in Members(last.rooms, c) =>
        /\ last.user \notin Members(capsuleRooms, c)
        /\ \A b \in SocketsIn(RoomName(c)) :
             Cardinality({i \in EmitsOf("user_left_capsule") :
                            /\ sent[i].user = last.user
                            /\ sent[i].cid = c
                            /\ b \in sent[i].to}) = 1
C7_Witness ==
  /\ last.op = "disconnect"
  /\ \E i \in EmitsOf("user_left_capsule"), b \in Socks :
       /\ b \in sent[i].to
       /\ sockUser[b] # last.user
       /\ sockUser[b] \in Members(capsuleRooms, sent[i].cid)

\* C8: a handshake with no token, a malformed or expired token, or a token of
\* no existing user is refused: it adds nothing to activeUsers, to any room or
\* to capsuleRooms and emits nothing; and a refused socket is never in
\* getActiveUsers(), in a room, or waiting on a handler.
BadToken(tok) == tok[1] # "jwt" \/ tok[2] \notin Users
C8_RefusedHandshakeLeavesNoTrace ==
  /\ [][\A s \in Socks, tok \in Tokens, dbOk \in BOOLEAN :
          (Handshake(s, tok, dbOk) /\ BadToken(tok)) =>
            /\ conn'[s] = "refused"
            /\ sent' = <<>>
            /\ UNCHANGED <<activeUsers, capsuleRooms, sockRooms, sockUser>>]_vars
  /\ [](\A s \in Socks :
          conn[s] = "refused" =>
            /\ \A i \in 1 .. Len(getActiveUsers) : getActiveUsers[i].socketId # s
            /\ sockRooms[s] = {}
            /\ sockUser[s] = NoUser
            /\ pendingJoinAll[s] = 0
            /\ \A c \in CapsuleIds : pendingJoin[s][c] = 0)
C8_Witness ==
  /\ last.op = "refused"
  /\ \E s, t \in Socks : conn[s] = "open" /\ conn[t] = "refused"

\* C10: a join_capsule that fails (the id resolves to no capsule, the caller is
\* neither owner nor contributor, or the lookup throws) sends one error event,
\* to the calling connection alone, changes neither capsuleRooms nor
\* activeUsers nor any connection or room, and emits no capsule_joined or
\* user_joined_capsule; so does a join_capsules whose lookup throws. A
\* join_capsule for an unknown capsule or by an outsider always fails.
ErrorToCallerOnly ==
  /\ Len(sent) = 1
  /\ sent[1].ev = "error"
  /\ sent[1].to = (IF conn[last.sock] = "open" THEN {last.sock} ELSE {})
C10_FailedJoinChangesNothing ==
  [][last'.op \in {"join_capsule", "join_capsules"} =>
       LET denied == last'.op = "join_capsule" /\ ~Authorised(last'.cid, last'.user)
           failed == \E i \in 1 .. Len(sent') : sent'[i].ev = "error"
       IN  /\ denied => failed
           /\ failed => /\ ErrorToCallerOnly'
                        /\ UNCHANGED <<capsuleRooms, activeUsers, conn, sockRooms>>]_vars
C10_Witness ==
  /\ last.op = "join_capsule"
  /\ conn[last.sock] = "open"
  /\ sent[1].ev = "error" /\ sent[1].arg = <<"Access denied">>
  /\ capsuleRooms # <<>>


\* ---------------------------------------------------------------- C6
\* The connections of the user who made the last request / of anyone else
\* that are in the room of capsule c.
ActorIn(c) == {s \in SocketsIn(RoomName(c)) : sockUser[s] = last.user}
OthersIn(c) == {s \in SocketsIn(RoomName(c)) : sockUser[s] # last.user}
PinDone == last.op = "pin" /\ last.status = 200
PinnedCapsule == memories[last.mid].capsule
\* The memory_pinned emits of the last handler that reach connection s and
\* carry the memory's id with its new isPinned.
PinEventsTo(s) ==
  {i \in EmitsOf("memory_pinned") :
     s \in sent[i].to /\ sent[i].arg = <<last.mid, BoolStr(memories[last.mid].isPinned)>>}

\* C6 (as the specification words it): after a successful pin over HTTP,
\* every other connection in the capsule's room receives exactly one
\* memory_pinned with the memory's id and new isPinned, and no connection of
\* the acting user receives a memory_pinned.
C6_PinReachesOthersNotActor ==
  PinDone =>
    /\ \A b \in OthersIn(PinnedCapsule) : Cardinality(PinEventsTo(b)) = 1
    /\ \A a \in Open : sockUser[a] = last.user =>
         \A i \in EmitsOf("memory_pinned") : a \notin sent[i].to

\* C6 (amended): after a successful pin over HTTP the handler emits one
\* memory_pinned with the memory's id and new isPinned, and every connection
\* in the capsule's room, the acting user's included, receives it exactly
\* once; no connection outside the room receives it.
C6_PinReachesWholeRoom ==
  PinDone =>
    /\ Cardinality(EmitsOf("memory_pinned")) = 1
    /\ \A s \in SocketsIn(RoomName(PinnedCapsule)) : Cardinality(PinEventsTo(s)) = 1
    /\ \A s \in Socks \ SocketsIn(RoomName(PinnedCapsule)) :
         \A i \in EmitsOf("memory_pinned") : s \notin sent[i].to

\* A pins m1 while a connection of A and a connection of B are in the room of
\* c1 and a third party is not.
C6_Witness ==
  /\ PinDone
  /\ last.user = "A"
  /\ memories[last.mid].isPinned
  /\ ActorIn(PinnedCapsule) # {}
  /\ \E b \in OthersIn(PinnedCapsule) : sockUser[b] = "B"

\* ---------------------------------------------------------------- C9
HttpOps == {"pin", "create_memory", "delete_memory", "create_capsule",
            "http_join", "http_leave"}
EventOfOp(op) ==
  CASE op = "pin" -> "memory_pinned"
    [] op = "create_memory" -> "new_memory"
    [] op = "delete_memory" -> "memory_deleted"
    [] op = "create_capsule" -> "capsule_created"
    [] op = "http_join" -> "user_joined"
    [] op = "http_leave" -> "user_left"

\* The emits of the last handler that carry its own event.
LastOpEmits == EmitsOf(EventOfOp(last.op))

\* C9: an HTTP mutation handler that has committed a change to the store has
\* also emitted its event, whether or not a later store call of the same
\* handler failed.
C9_CommitImpliesEmit ==
  [][(last'.op \in HttpOps /\ <<capsules, memories>>' # <<capsules, memories>>)
       => Cardinality(LastOpEmits') = 1]_vars

\* ---------------------------------------------------------------- C11
\* The event names the design enumerates.
DomainEvents ==
  {"new_memory", "memory_updated", "memory_deleted", "memory_reaction", "new_comment",
   "memory_pinned", "user_joined_capsule", "user_left_capsule", "user_typing",
   "live_reaction", "user_viewing_memory", "user_online", "user_offline",
   "capsule_created", "capsule_updated"}
\* The last handler made exactly one emit: event ev to the room of capsule c.
EmittedToRoom(ev, c) ==
  /\ Len(sent) = 1
  /\ sent[1].ev = ev
  /\ sent[1].to = IoTo(RoomName(c))

\* C11: every event an HTTP mutation handler emits carries a name of
\* DomainEvents; a successful HTTP join emits user_joined_capsule and a
\* successful HTTP leave emits user_left_capsule to the room of the capsule.
C11_HttpEventsAreDomainEvents ==
  last.op \in HttpOps =>
    /\ \A i \in 1 .. Len(sent) : sent[i].ev \in DomainEvents
    /\ (last.op = "http_join" /\ last.status = 200)
         => EmittedToRoom("user_joined_capsule", last.cid)
    /\ (last.op = "http_leave" /\ last.status = 200)
         => EmittedToRoom("user_left_capsule", last.cid)

\* ---------------------------------------------------------------- C12
\* A join_capsules whose Capsule.find answered.
JoinAllDone == last.op = "join_capsules" /\ ~StoreFailed
\* The user of the last handler is in the room of each of its capsules.
InEveryOwnRoom ==
  \A c \in Range(UserCapsules(last.user)) :
    /\ last.user \in Members(capsuleRooms, c)
    /\ RoomName(c) \in sockRooms[last.sock]
\* The user_joined_capsule emits of the last handler for capsule c.
JoinedEmitsFor(c) == {i \in EmitsOf("user_joined_capsule") : sent[i].cid = c}

\* C12 (as the specification words it): join_capsules puts the user in the
\* room of every capsule the user owns or contributes to, and no connection
\* receives a user_joined_capsule for any of those rooms.
C12_JoinAllWithoutBroadcast ==
  JoinAllDone =>
    /\ InEveryOwnRoom
    /\ \A i \in EmitsOf("user_joined_capsule") : sent[i].to = {}

\* C12 (amended): join_capsules puts the user in the room of every capsule the
\* user owns or contributes to, and for each of those rooms, and no other,
\* emits one user_joined_capsule naming the user and the capsule to the
\* connections in the room other than the caller's.
C12_JoinAllBroadcastsPerRoom ==
  JoinAllDone =>
    /\ InEveryOwnRoom
    /\ \A c \in CapsuleIds :
         IF c \in Range(UserCapsules(last.user))
           THEN /\ Cardinality(JoinedEmitsFor(c)) = 1
                /\ \A i \in JoinedEmitsFor(c) :
                     /\ sent[i].user = last.user
                     /\ sent[i].to = SocketsIn(RoomName(c)) \ {last.sock}
           ELSE JoinedEmitsFor(c) = {}
\* B, who belongs to c1 and c2, has joined both rooms in bulk while a
\* connection of another user in room c1 received the notice.
C12_Witness ==
  /\ JoinAllDone
  /\ last.user = "B"
  /\ Cardinality(EmitsOf("user_joined_capsule")) = 2
  /\ \E i \in JoinedEmitsFor("c1") : \E t \in sent[i].to : sockUser[t] = "A"

\* ---------------------------------------------------------------- C13
\* The users whose registry entry the last handler removed.
Evicted == MapKeys(last.active) \ MapKeys(activeUsers)

\* C13: after a sweep has evicted the registry entry of a user, that user is
\* a member of no room of capsuleRooms.
C13_SweepClearsRoomsOfEvicted ==
  last.op = "sweep" =>
    \A u \in Evicted : \A c \in CapsuleIds : u \notin Members(capsuleRooms, c)

\* ---------------------------------------------------------------- C14
CreateDone == last.op = "create_memory" /\ last.status = 201

\* C14: the new_memory event of a created memory is delivered exactly once to
\* each connection that is in the capsule's room when it is dispatched and to
\* no other; and no later handler, such as the join or the connect of a
\* connection that comes afterwards, delivers a new_memory to anyone.
C14_DeliveredOnceAtDispatchOnly ==
  /\ [](CreateDone =>
          /\ Cardinality(EmitsOf("new_memory")) = 1
          /\ \A i \in EmitsOf("new_memory") :
               /\ sent[i].cid = last.cid /\ sent[i].arg = <<last.mid>>
               /\ sent[i].to = SocketsIn(RoomName(last.cid)))
  /\ [][last'.op # "create_memory" => EmitsOf("new_memory")' = {}]_vars
\* A memory was created in c1 and its event delivered to a connection in the
\* room while another open connection was not in the room.
C14_Witness ==
  /\ CreateDone
  /\ \E i \in EmitsOf("new_memory") : sent[i].to # {} /\ sent[i].to # Open

\* ---------------------------------------------------------------- C15
\* How often user u occurs in the member set of the room of capsule c.
Occurrences(rooms, c, u) ==
  IF MapHas(rooms, RoomName(c))
    THEN Cardinality({i \in 1 .. Len(MapGet(rooms, RoomName(c)).users) :
                        MapGet(rooms, RoomName(c)).users[i] = u})
    ELSE 0
\* A join_capsule that went through.
JoinDone == last.op = "join_capsule" /\ EmitsOf("capsule_joined") # {}

\* C15: however two overlapping join_capsule(c) requests of the same
\* authorised user are interleaved, no member set ever holds a user twice;
\* each of the two joins, when it completes, leaves the user in the room's set
\* exactly once, adds nobody else, and the one that completes second leaves
\* capsuleRooms as the first made it.
C15_ConcurrentJoinsAddOnce ==
  /\ [](\A c \in CapsuleIds : \A u \in Users : Occurrences(capsuleRooms, c, u) <= 1)
  /\ [][JoinDone' =>
          /\ Occurrences(capsuleRooms', last'.cid, last'.user) = 1
          /\ Members(capsuleRooms', last'.cid)
               = Members(capsuleRooms, last'.cid) \cup {last'.user}
          /\ last'.user \in Members(capsuleRooms, last'.cid)
               => capsuleRooms' = capsuleRooms]_vars
\* One of two overlapping joins of the same user for the same capsule has
\* completed while the other is still suspended on the lookup.
C15_Witness ==
  /\ JoinDone
  /\ PendingFor(last.user, last.cid) > 0
  /\ Occurrences(capsuleRooms, last.cid, last.user) = 1

\* ---------------------------------------------------------------- C16
\* capsuleRooms after user u has joined the room of capsule c once / twice.
JoinedOnce(c, u) == RoomAdd(capsuleRooms, RoomName(c), u)
JoinedTwice(c, u) == RoomAdd(JoinedOnce(c, u), RoomName(c), u)

\* C16: from every reachable state, adding a user to a room twice gives the
\* capsuleRooms that adding once gives, with the user in the set once; and a
\* join_capsule(c) that goes through for a user who has already joined c
\* leaves capsuleRooms as it was.
C16_JoinTwiceIsJoinOnce ==
  /\ \A c \in CapsuleIds : \A u \in Users :
       /\ JoinedTwice(c, u) = JoinedOnce(c, u)
       /\ Cardinality({i \in 1 .. Len(MapGet(JoinedTwice(c, u), RoomName(c)).users) :
                         MapGet(JoinedTwice(c, u), RoomName(c)).users[i] = u}) = 1
  /\ (JoinDone /\ last.user \in Members(last.rooms, last.cid))
       => capsuleRooms = last.rooms
\* A join_capsule went through for a user who was in the room already, with
\* another member beside.
C16_Witness ==
  /\ JoinDone
  /\ last.user \in Members(last.rooms, last.cid)
  /\ Cardinality(Members(capsuleRooms, last.cid)) = 2

\* ---------------------------------------------------------------- C17
\* The user_left_capsule emits of the last handler for capsule c.
LeftEmitsFor(c) == {i \in EmitsOf("user_left_capsule") : sent[i].cid = c}

\* C17: a disconnect of user u deletes every room of which u was the last
\* member; for every other room u was in it emits one user_left_capsule
\* naming u to the connections remaining in the room and takes u out; it emits
\* none for a room u was not in; and it emits user_offline for u once, to all
\* remaining connections, after all of those.
C17_DisconnectRoomsThenOffline ==
  last.op = "disconnect" =>
    /\ \A c \in CapsuleIds :
         IF last.user \notin Members(last.rooms, c) THEN LeftEmitsFor(c) = {}
         ELSE IF Members(last.rooms, c) = {last.user}
           THEN ~MapHas(capsuleRooms, RoomName(c))
           ELSE /\ Members(capsuleRooms, c) = Members(last.rooms, c) \ {last.user}
                /\ Cardinality(LeftEmitsFor(c)) = 1
                /\ \A i \in LeftEmitsFor(c) :
                     /\ sent[i].user = last.user
                     /\ sent[i].to = SocketsIn(RoomName(c))
    /\ EmitsOf("user_offline") = {Len(sent)}
    /\ sent[Len(sent)].user = last.user
    /\ sent[Len(sent)].to = Open
    /\ \A i \in EmitsOf("user_left_capsule") : i < Len(sent)
\* A user who was the last member of one room and one of two members of
\* another has disconnected, and the other member's connection was told.
C17_Witness ==
  /\ last.op = "disconnect"
  /\ \E c \in CapsuleIds : Members(last.rooms, c) = {last.user}
  /\ \E c \in CapsuleIds :
       /\ last.user \in Members(last.rooms, c)
       /\ Members(capsuleRooms, c) # {}
       /\ \E i \in LeftEmitsFor(c) : sent[i].to # {}
  /\ Len(sent) = 3

\* ---------------------------------------------------------------- C18
\* C18: a disconnect for a user who has no entry in activeUsers (it was
\* removed before) changes neither activeUsers nor capsuleRooms, and no
\* connection receives an event from it.
C18_UnregisterUnknownIsNoOp ==
  (last.op = "disconnect" /\ ~MapHas(last.active, last.user)) =>
    /\ activeUsers = last.active
    /\ capsuleRooms = last.rooms
    /\ \A i \in 1 .. Len(sent) : sent[i].to = {}

\* ---------------------------------------------------------------- C19
\* The socket of user u that connected last (socket ids are handed out in the
\* order of the handshakes).
LatestSocketOf(u) ==
  CHOOSE s \in Socks : sockUser[s] = u /\ \A t \in Socks : sockUser[t] = u => t <= s

\* C19: activeUsers never holds two entries for one user id, and an entry
\* always references the socket of its user that connected last; a connect of
\* user u leaves u's entry referencing the connecting socket, stamped with the
\* time of the connect, and emits user_online for u once, to every other
\* connection and not to the connecting one.
C19_ConnectReplacesEntry ==
  /\ \A i, j \in 1 .. Len(activeUsers) :
       activeUsers[i].key = activeUsers[j].key => i = j
  /\ \A i \in 1 .. Len(activeUsers) :
       activeUsers[i].socketId = LatestSocketOf(activeUsers[i].key)
  /\ last.op = "connection" =>
       /\ MapHas(activeUsers, last.user)
       /\ MapGet(activeUsers, last.user).socketId = last.sock
       /\ MapGet(activeUsers, last.user).joinedAt = clock
       /\ Len(sent) = 1
       /\ sent[1].ev = "user_online" /\ sent[1].user = last.user
       /\ sent[1].to = Open \ {last.sock}
\* A second connection of a user replaced the entry of the first, which is
\* still open and was told.
C19_Witness ==
  /\ last.op = "connection"
  /\ MapHas(last.active, last.user)
  /\ MapGet(last.active, last.user).socketId # last.sock
  /\ sent[1].to # {}
  /\ Len(activeUsers) = 1

\* ---------------------------------------------------------------- C20
\* The route handlers a request can reach.
HandlerRan == last.op \in HttpOps
\* The middleware has answered the last request itself.
Denied == last.op = "http_denied"

\* C20 (as the specification words it): a request to a capsule or memory
\* route with no token, a malformed or expired token, or the token of no
\* existing user is answered 401 by the middleware, whatever the store does;
\* no route handler ever runs for anyone but an existing user, and a request
\* the middleware answers emits nothing and changes no capsule and no memory.
C20_BadTokenAnswered401 ==
  /\ [](\A tok \in Tokens, authFail \in 0 .. 2 :
          BadToken(tok) => AuthenticateToken(tok, authFail) = 401)
  /\ [](HandlerRan => last.user \in Users)
  /\ [][Denied' => (sent' = <<>> /\ UNCHANGED <<capsules, memories, memSeq>>)]_vars

\* C20 (amended): such a request is answered 401 by the middleware, or 500
\* when the token is well-formed and the lookup of its user throws; no route
\* handler ever runs for anyone but an existing user, and a request the
\* middleware answers emits nothing and changes no capsule and no memory.
C20_BadTokenDenied ==
  /\ [](\A tok \in Tokens, authFail \in 0 .. 2 :
          BadToken(tok) =>
            AuthenticateToken(tok, authFail)
              = (IF tok[1] = "jwt" /\ authFail = 1 THEN 500 ELSE 401))
  /\ [](HandlerRan => last.user \in Users)
  /\ [][Denied' => (sent' = <<>> /\ UNCHANGED <<capsules, memories, memSeq>>)]_vars
\* A request was answered 401 by the middleware after an earlier one had
\* created a capsule.
C20_Witness ==
  /\ Denied
  /\ last.status = 401
  /\ "c3" \in DOMAIN capsules

\* ===================================================================
\* The routes behind checkCapsulePermission
\* ===================================================================
\* req.userRole as the middleware leaves it: "owner", the contributor's role,
\* or "undefined" when the middleware answered the request itself.
UserRole(p, u, requiredRole, dbOk) ==
  IF CheckCapsulePermission(p, u, requiredRole, dbOk) # 0 THEN "undefined"
  ELSE IF capsules[p].owner = u THEN "owner"
  ELSE RoleOf(p, u)

\* ------------------------------------------------------ GET /api/capsules/:id
\* timedLocked: the capsule is of type "timed" and its release date lies ahead.
\* The handler reads and answers; it writes nothing and emits nothing.
GetCapsuleStatus(u, c, timedLocked, failAt) ==
  IF CheckCapsulePermission(ParamCapsuleId, u, "viewer", failAt # 1) # 0
    THEN CheckCapsulePermission(ParamCapsuleId, u, "viewer", failAt # 1)
  ELSE IF failAt = 2 THEN 500
  ELSE IF c \notin DOMAIN capsules THEN 404
  ELSE IF timedLocked
          /\ UserRole(ParamCapsuleId, u, "viewer", TRUE) \notin {"owner", "admin"}
    THEN 403
  ELSE 200

HttpGetCapsule(u, c, timedLocked, failAt) ==
  /\ last' = Ran("get_capsule", Server, u, c, "", GetCapsuleStatus(u, c, timedLocked, failAt))
  /\ sent' = <<>>
  /\ UNCHANGED store
  /\ HttpUnchanged

\* ------------------------------------------------------ PUT /api/capsules/:id
\* The fields the handler writes (title, description, theme, tags, settings,
\* stats.lastActivity) are none of the capsule fields kept here. A capsule
\* that findById does not find makes the handler throw into its catch.
UpdateCapsuleStatus(u, c, failAt) ==
  IF CheckCapsulePermission(ParamCapsuleId, u, "admin", failAt # 1) # 0
    THEN CheckCapsulePermission(ParamCapsuleId, u, "admin", failAt # 1)
  ELSE IF failAt = 2 \/ c \notin DOMAIN capsules THEN 500
  ELSE IF failAt \in {3, 4} THEN 500
  ELSE 200

HttpUpdateCapsule(u, c, failAt) ==
  /\ last' = Ran("update_capsule", Server, u, c, "", UpdateCapsuleStatus(u, c, failAt))
  /\ sent' = IF UpdateCapsuleStatus(u, c, failAt) = 200
               THEN <<Emit("capsule_updated", Server, IoTo(RoomName(c)), u, c, <<>>)>>
               ELSE <<>>
  /\ UNCHANGED store
  /\ HttpUnchanged

\* The capsule routes that run checkCapsulePermission first, next to the join
\* route that makes new contributors.
NextGuarded ==
  \/ \E u \in Users, c \in CapsuleIds, invite \in {"ok", "bad"}, failAt \in 0 .. 4 :
       HttpJoin(u, c, invite, failAt)
  \/ \E u \in Users, c \in CapsuleIds, timedLocked \in BOOLEAN, failAt \in 0 .. 2 :
       HttpGetCapsule(u, c, timedLocked, failAt)
  \/ \E u \in Users, c \in CapsuleIds, failAt \in 0 .. 4 : HttpUpdateCapsule(u, c, failAt)
  \/ \E u \in Users, c \in CapsuleIds, failAt \in 0 .. 4 : HttpLeave(u, c, failAt)

SpecGuarded == Init /\ [][NextGuarded]_vars

GuardedOps == {"get_capsule", "update_capsule", "http_leave"}
RequiredRole(op) ==
  CASE op = "get_capsule" -> "viewer"
    [] op = "update_capsule" -> "admin"
    [] op = "http_leave" -> "contributor"
\* u is the owner of c or a contributor of c whose role is at least role.
Permitted(c, u, role) ==
  /\ c \in DOMAIN capsules
  /\ \/ capsules[c].owner = u
     \/ IsContributor(c, u) /\ RoleRank(RoleOf(c, u)) >= RoleRank(role)

\* C21: GET /api/capsules/:id, PUT /api/capsules/:id and
\* DELETE /api/capsules/:id/leave, asked for an existing capsule by its owner
\* or by a contributor whose role suffices, are not answered 404 "Capsule not
\* found"; that answer is given only when no capsule has the id of the route.
C21_PermittedRequestPassesCheck ==
  last.op \in GuardedOps
    => /\ Permitted(last.cid, last.user, RequiredRole(last.op)) => last.status # 404
       /\ last.status = 404 => last.cid \notin DOMAIN capsules

\* ===================================================================
\* Reactions and comments on a memory
\* ===================================================================
\* req.body.emoji; "" stands for a request without one.
Emojis == {"heart", "thumbs_up"}

\* memory.reactions.find(...) for the pair (u, e).
HasReaction(reactions, u, e) ==
  \E i \in 1 .. Len(reactions) : reactions[i].user = u /\ reactions[i].emoji = e
ReactTogglePushOnly(reactions, u, e) == Append(reactions, [user |-> u, emoji |-> e])
\* The filter that removes the pair when it is there, the push that adds it
\* when it is not.
ReactToggle(reactions, u, e) ==
  IF HasReaction(reactions, u, e)
    THEN SelectSeq(reactions, LAMBDA r : ~(r.user = u /\ r.emoji = e))
    ELSE Append(reactions, [user |-> u, emoji |-> e])
ReactAction(reactions, u, e) ==
  IF HasReaction(reactions, u, e) THEN "removed" ELSE "added"

\* ------------------------------------------------ POST /api/memories/:id/react
\* Store calls: 1 MemoryItem.findById, 2 memory.save, 3 memory.populate.
ReactStatus(u, m, e, failAt) ==
  IF e = "" THEN 400
  ELSE IF failAt = 1 THEN 500
  ELSE IF m \notin DOMAIN memories THEN 404
  ELSE IF failAt \in {2, 3} THEN 500
  ELSE 200
ReactSaved(u, m, e, failAt) == ReactStatus(u, m, e, 0) = 200 /\ failAt \in {0, 3}
MemoryCapsule(m) == IF m \in DOMAIN memories THEN memories[m].capsule ELSE ""

HttpReact(u, m, e, failAt) ==
  /\ last' = Ran("react", Server, u, MemoryCapsule(m), m, ReactStatus(u, m, e, failAt))
               @@ [emoji |-> e,
                   before |-> IF m \in DOMAIN memories THEN memories[m].reactions ELSE <<>>]
  /\ memories' = IF ReactSaved(u, m, e, failAt)
                   THEN [memories EXCEPT ![m].reactions = ReactToggle(@, u, e)]
                   ELSE memories
  /\ sent' = IF ReactStatus(u, m, e, failAt) = 200
               THEN <<Emit("memory_reaction", Server, IoTo(RoomName(memories[m].capsule)),
                           u, memories[m].capsule,
                           <<m, e, ReactAction(memories[m].reactions, u, e)>>)>>
               ELSE <<>>
  /\ UNCHANGED <<capsules, memSeq>>
  /\ HttpUnchanged

\* Sequential react requests of a contributor and of an outsider of capsule c1,
\* on its memory m1 and on a memory id that names nothing.
Reactors == {"A", "X"}
NextReact ==
  \E u \in Reactors, m \in {"m1", "m2"}, e \in Emojis \cup {""}, failAt \in 0 .. 3 :
    HttpReact(u, m, e, failAt)

SpecReact == Init /\ [][NextReact]_vars

\* The reaction pairs a memory holds, and how often it holds one of them.
ReactionSet(reactions) == Range(reactions)
ReactionCount(reactions, u, e) ==
  Cardinality({i \in 1 .. Len(reactions) : reactions[i].user = u /\ reactions[i].emoji = e})
ReactPair == [user |-> last.user, emoji |-> last.emoji]
ReactDone == last.op = "react" /\ last.status = 200

\* C22: a react request by u with emoji e that is answered 200 toggles the
\* pair (u, e) and nothing else: absent before, it is there afterwards and the
\* event says "added"; present before, it is gone and the event says
\* "removed". Toggling the same pair twice gives back the reaction set, two
\* such requests in succession leave the set the first one found, and no
\* memory ever holds a pair twice.
C22_ReactTogglesPair ==
  /\ [](\A m \in DOMAIN memories :
          /\ \A u \in Users, e \in Emojis :
               /\ ReactionCount(memories[m].reactions, u, e) <= 1
               /\ ReactionSet(ReactToggle(ReactToggle(memories[m].reactions, u, e), u, e))
                    = ReactionSet(memories[m].reactions)
          /\ ReactDone /\ last.mid = m
               => /\ ReactionSet(memories[m].reactions) \ {ReactPair}
                       = ReactionSet(last.before) \ {ReactPair}
                  /\ (ReactPair \in ReactionSet(memories[m].reactions))
                       <=> (ReactPair \notin ReactionSet(last.before))
                  /\ Len(sent) = 1 /\ sent[1].ev = "memory_reaction"
                  /\ sent[1].arg = <<m, last.emoji,
                                     IF ReactPair \in ReactionSet(last.before)
                                       THEN "removed" ELSE "added">>)
  /\ [][(ReactDone /\ ReactDone' /\ last'.mid = last.mid /\ last'.user = last.user
           /\ last'.emoji = last.emoji)
          => ReactionSet(memories'[last.mid].reactions) = ReactionSet(last.before)]_vars

\* A second react of the same pair has just taken back what the first added,
\* while another pair stays on the memory.
C22_Witness ==
  /\ ReactDone
  /\ sent[1].arg[3] = "removed"
  /\ ReactPair \in ReactionSet(last.before)
  /\ ReactPair \notin ReactionSet(memories[last.mid].reactions)
  /\ memories[last.mid].reactions # <<>>

\* ===================================================================
\* checkCapsulePermission on the capsule it is asked about
\* ===================================================================
\* The keys of roleHierarchy, and the roles the contributor schema allows.
RoleHierarchy == {"viewer", "contributor", "admin", "owner"}
StoredRoles == {"admin", "contributor", "viewer"}

\* The store with contributor B of capsule c1 in any role of the schema.
InitPermission ==
  /\ conn = [s \in Socks |-> "new"]
  /\ sockUser = [s \in Socks |-> NoUser]
  /\ sockRooms = [s \in Socks |-> {}]
  /\ activeUsers = <<>>
  /\ capsuleRooms = <<>>
  /\ pendingJoin = [s \in Socks |-> [c \in CapsuleIds |-> 0]]
  /\ pendingJoinAll = [s \in Socks |-> 0]
  /\ clock = 0
  /\ \E role \in StoredRoles :
       capsules = [InitCapsules EXCEPT !["c1"].contributors[2].role = role]
  /\ memories = InitMemories
  /\ memSeq = 1
  /\ inFlight = [r \in Requests |-> Idle]
  /\ last = Ran("start", Server, NoUser, "", "", 0)
  /\ sent = <<>>

\* What the middleware leaves behind for a request of u about capsule id p.
Checked(op, p, u, requiredRole, dbOk, st) ==
  Ran(op, Server, u, p, "", st)
    @@ [requiredRole |-> requiredRole,
        passed |-> CheckCapsulePermission(p, u, requiredRole, dbOk) = 0,
        userRole |-> UserRole(p, u, requiredRole, dbOk)]

\* The middleware by itself, for every role it can be built with.
CheckPermission(p, u, requiredRole, dbOk) ==
  /\ last' = Checked("check_permission", p, u, requiredRole, dbOk,
                     CheckCapsulePermission(p, u, requiredRole, dbOk))
  /\ sent' = <<>>
  /\ UNCHANGED store
  /\ HttpUnchanged

\* ---------------------------------- GET /api/memories/capsule/:capsuleId
\* The one route whose parameter has the name the middleware reads.
\* Store calls: 1 Capsule.findById (middleware), 2 MemoryItem.find,
\* 3 MemoryItem.countDocuments.
ListMemoriesStatus(u, c, failAt) ==
  IF CheckCapsulePermission(c, u, "viewer", failAt # 1) # 0
    THEN CheckCapsulePermission(c, u, "viewer", failAt # 1)
  ELSE IF failAt \in {2, 3} THEN 500
  ELSE 200

HttpListMemories(u, c, failAt) ==
  /\ last' = Checked("list_memories", c, u, "viewer", failAt # 1,
                     ListMemoriesStatus(u, c, failAt))
  /\ sent' = <<>>
  /\ UNCHANGED store
  /\ HttpUnchanged

NextPermission ==
  \/ \E p \in CapsuleIds \cup {ParamCapsuleId}, u \in Users,
        requiredRole \in RoleHierarchy, dbOk \in BOOLEAN :
       CheckPermission(p, u, requiredRole, dbOk)
  \/ \E u \in Users, c \in CapsuleIds, failAt \in 0 .. 3 : HttpListMemories(u, c, failAt)
  \/ \E u \in Users, c \in CapsuleIds, invite \in {"ok", "bad"}, failAt \in 0 .. 4 :
       HttpJoin(u, c, invite, failAt)

SpecPermission == InitPermission /\ [][NextPermission]_vars

\* The middleware has looked up an existing capsule without the lookup failing.
PermissionDecided ==
  /\ last.op \in {"check_permission", "list_memories"}
  /\ last.cid \in DOMAIN capsules
  /\ ~(~last.passed /\ last.status = 500)

\* C23: for a request about an existing capsule, checkCapsulePermission lets
\* the capsule's owner pass with userRole "owner" whatever role is required;
\* lets a contributor who is not the owner pass exactly when the rank of its
\* role (viewer 1, contributor 2, admin 3, owner 4) is at least the rank of
\* the required role, with userRole its role, and answers 403 otherwise; and
\* answers 403 to a user who is neither.
C23_PermissionFollowsHierarchy ==
  PermissionDecided =>
    /\ capsules[last.cid].owner = last.user
         => last.passed /\ last.userRole = "owner"
    /\ (capsules[last.cid].owner # last.user /\ IsContributor(last.cid, last.user))
         => /\ last.passed
                 <=> RoleRank(RoleOf(last.cid, last.user)) >= RoleRank(last.requiredRole)
            /\ last.passed => last.userRole = RoleOf(last.cid, last.user)
            /\ ~last.passed => last.status = 403
    /\ ~HasAccess(last.cid, last.user) => ~last.passed /\ last.status = 403
    /\ RoleRank("viewer") < RoleRank("contributor")
    /\ RoleRank("contributor") < RoleRank("admin")
    /\ RoleRank("admin") < RoleRank("owner")

\* A contributor in the viewer role has been refused where the contributor
\* role is required.
C23_Witness ==
  /\ PermissionDecided
  /\ capsules[last.cid].owner # last.user
  /\ IsContributor(last.cid, last.user)
  /\ RoleOf(last.cid, last.user) = "viewer"
  /\ last.requiredRole = "contributor"
  /\ last.status = 403

\* ---------------------------------------------------------------- C24
\* User u has a connection that is open.
Connected(u) == \E s \in Socks : conn[s] = "open" /\ sockUser[s] = u

\* C24: every user id in a member set of capsuleRooms is the user of a
\* connection that is open, in every reachable state; a join_capsule or
\* join_capsules whose store lookup answers after its connection has
\* disconnected adds nobody to capsuleRooms.
C24_RoomMembersAreConnected ==
  \A c \in CapsuleIds : \A u \in Members(capsuleRooms, c) : Connected(u)

\* ---------------------------------------------------------------- C25
\* C25: a user with an open connection has an entry in activeUsers and is a
\* member, in capsuleRooms, of every room a connection of it has joined;
\* neither the disconnect of another connection of the user nor the sweep
\* takes that away.
C25_ConnectedUserStaysPresent ==
  \A s \in Socks :
    conn[s] = "open" =>
      /\ isUserOnline(sockUser[s])
      /\ \A c \in CapsuleIds :
           RoomName(c) \in sockRooms[s] => sockUser[s] \in Members(capsuleRooms, c)

\* ---------------------------------------------------------------- C26
\* C26: user_left_capsule naming user u reaches connections of room c only
\* when u was a member of room c just before the handler ran; a
\* leave_capsule(c) of a user who is not a member of room c leaves
\* capsuleRooms as it was and delivers nothing to anyone.
C26_LeftEventOnlyForMembers ==
  /\ \A i \in EmitsOf("user_left_capsule") :
       sent[i].to # {} => sent[i].user \in Members(last.rooms, sent[i].cid)
  /\ (last.op = "leave_capsule" /\ last.user \notin Members(last.rooms, last.cid))
       => /\ capsuleRooms = last.rooms
          /\ \A i \in 1 .. Len(sent) : sent[i].to = {}

\* ---------------------------------------------------------------- C27
\* Connections joining rooms while users ask to leave capsules.
NextLeave ==
  \/ \E s \in Socks, tok \in Tokens, dbOk \in BOOLEAN : Handshake(s, tok, dbOk)
  \/ \E s \in Socks, c \in CapsuleIds : JoinCapsuleReq(s, c)
  \/ \E s \in Socks, c \in CapsuleIds, dbOk \in BOOLEAN : JoinCapsuleResume(s, c, dbOk)
  \/ \E s \in Socks : Disconnect(s)
  \/ \E u \in Users, c \in CapsuleIds, failAt \in 0 .. 4 : HttpLeave(u, c, failAt)

SpecLeave == Init /\ [][NextLeave]_vars

\* A DELETE /:id/leave for an existing capsule by someone who is not its
\* owner has been answered without a store call throwing.
LeaveAsked ==
  /\ last.op = "http_leave"
  /\ last.cid \in DOMAIN capsules
  /\ capsules[last.cid].owner # last.user
  /\ last.status # 500

\* C27: an open connection is in the room of capsule c only while its user is
\* owner or contributor of c in the store; once a contributor has left c
\* with DELETE /api/capsules/:id/leave, no connection of that user is among
\* those an event sent to room c reaches.
C27_RoomOnlyWhileMember ==
  /\ \A s \in Socks, c \in CapsuleIds :
       (conn[s] = "open" /\ RoomName(c) \in sockRooms[s]) => Authorised(c, sockUser[s])
  /\ LeaveAsked => \A s \in IoTo(RoomName(last.cid)) : sockUser[s] # last.user

\* ---------------------------------------------- POST /api/memories/:id/comment
MaxComments == 2
\* req.body.text; "" stands for a text validateComment turns away.
Texts == {"", "hello"}

\* Store calls: 1 MemoryItem.findById, 2 memory.save, 3 memory.populate.
CommentStatus(u, m, text, failAt) ==
  IF text = "" THEN 400
  ELSE IF failAt = 1 THEN 500
  ELSE IF m \notin DOMAIN memories THEN 404
  ELSE IF failAt \in {2, 3} THEN 500
  ELSE 201
CommentSaved(u, m, text, failAt) == CommentStatus(u, m, text, 0) = 201 /\ failAt \in {0, 3}

HttpComment(u, m, text, failAt) ==
  /\ m \in DOMAIN memories => Len(memories[m].comments) < MaxComments
  /\ last' = Ran("comment", Server, u, MemoryCapsule(m), m, CommentStatus(u, m, text, failAt))
               @@ [text |-> text,
                   before |-> IF m \in DOMAIN memories THEN memories[m].comments ELSE <<>>]
  /\ memories' = IF CommentSaved(u, m, text, failAt)
                   THEN [memories EXCEPT ![m].comments =
                           Append(@, [user |-> u, text |-> text])]
                   ELSE memories
  /\ sent' = IF CommentStatus(u, m, text, failAt) = 201
               THEN <<Emit("new_comment", Server, IoTo(RoomName(memories[m].capsule)),
                           u, memories[m].capsule, <<m, text>>)>>
               ELSE <<>>
  /\ UNCHANGED <<capsules, memSeq>>
  /\ HttpUnchanged

\* Reactions and comments of every user, member of the capsule or not.
NextFeedback ==
  \/ \E u \in Users, m \in {"m1", "m2"}, e \in {"heart", ""}, failAt \in 0 .. 3 :
       HttpReact(u, m, e, failAt)
  \/ \E u \in Users, m \in {"m1", "m2"}, text \in Texts, failAt \in 0 .. 3 :
       HttpComment(u, m, text, failAt)

SpecFeedback == Init /\ [][NextFeedback]_vars

\* The last request was a reaction or a comment on an existing memory by a
\* user who is neither owner nor contributor of the memory's capsule.
OutsiderFeedback ==
  /\ last.op \in {"react", "comment"}
  /\ last.mid \in DOMAIN memories
  /\ ~Authorised(last.cid, last.user)

\* C28: a react or comment request on a memory by a user who is neither owner
\* nor contributor of the memory's capsule is rejected, leaves the memory's
\* reactions and comments as they were, and emits neither memory_reaction nor
\* new_comment.
C28_OutsiderCannotChangeMemory ==
  OutsiderFeedback =>
    /\ last.status \notin {200, 201}
    /\ last.op = "react" => memories[last.mid].reactions = last.before
    /\ last.op = "comment" => memories[last.mid].comments = last.before
    /\ EmitsOf("memory_reaction") = {} /\ EmitsOf("new_comment") = {}

\* ===================================================================
\* Requests that overlap: POST /api/capsules/:id/join
\* ===================================================================
\* The handler reads the capsule, decides on the document it has read, and
\* sends its write with capsule.save(): the contributor pushed onto the array
\* goes to the store as a $push of that one element, whatever the stored array
\* holds by then. Another request can run between the read and the write.
\* Store calls: 1 Capsule.findById, 2 capsule.save, 3 User.findByIdAndUpdate,
\* 4 capsule.populate.
JoinReadStatus(u, c, invite, dbOk) ==
  IF ~dbOk THEN 500
  ELSE IF c \notin DOMAIN capsules THEN 404
  ELSE IF invite = "bad" THEN 400
  ELSE IF IsContributor(c, u) THEN 400
  ELSE 0
ContributorsOrNone(c) == IF c \in DOMAIN capsules THEN Contributors(c) ELSE <<>>

HttpJoinRead(r, u, c, invite, dbOk) ==
  /\ inFlight[r] = Idle
  /\ last' = Ran(IF JoinReadStatus(u, c, invite, dbOk) = 0
                   THEN "http_join:await" ELSE "http_join",
                 Server, u, c, "", JoinReadStatus(u, c, invite, dbOk))
               @@ [before |-> ContributorsOrNone(c)]
  /\ inFlight' = IF JoinReadStatus(u, c, invite, dbOk) = 0
                   THEN [inFlight EXCEPT ![r] = [op |-> "http_join", user |-> u, cid |-> c]]
                   ELSE inFlight
  /\ sent' = <<>>
  /\ UNCHANGED <<sockets, registry, pending, clock, store>>

HttpJoinSave(r, failAt) ==
  /\ inFlight[r].op = "http_join"
  /\ LET u == inFlight[r].user
         c == inFlight[r].cid
     IN  /\ last' = Ran("http_join", Server, u, c, "", IF failAt = 0 THEN 200 ELSE 500)
                      @@ [before |-> Contributors(c)]
         /\ capsules' = IF failAt # 2
                          THEN [capsules EXCEPT ![c].contributors =
                                  Append(@, [user |-> u, role |-> "contributor"])]
                          ELSE capsules
         /\ sent' = IF failAt = 0
                      THEN <<Emit("user_joined", Server, IoTo(RoomName(c)), u, c, <<>>)>>
                      ELSE <<>>
  /\ inFlight' = [inFlight EXCEPT ![r] = Idle]
  /\ UNCHANGED <<sockets, registry, pending, clock, memories, memSeq>>

NextJoinRace ==
  \/ \E r \in Requests, u \in Users, c \in CapsuleIds, invite \in {"ok", "bad"},
        dbOk \in BOOLEAN : HttpJoinRead(r, u, c, invite, dbOk)
  \/ \E r \in Requests, failAt \in {0, 2, 3, 4} : HttpJoinSave(r, failAt)

SpecJoinRace == Init /\ [][NextJoinRace]_vars

\* How many entries of a contributors list name user u.
ListedTimes(contributors, u) ==
  Cardinality({i \in 1 .. Len(contributors) : contributors[i].user = u})

\* C29: no contributors list names a user twice, however join requests
\* follow or overlap one another; and a join of a user the list already
\* names is answered 400 (500 when a store call throws) and leaves the list as
\* it was.
C29_ContributorsListedOnce ==
  /\ \A c \in DOMAIN capsules, u \in Users : ListedTimes(Contributors(c), u) <= 1
  /\ (last.op = "http_join" /\ ListedTimes(last.before, last.user) > 0)
       => last.status \in {400, 500} /\ Contributors(last.cid) = last.before

\* ===================================================================
\* Requests that overlap: DELETE /api/memories/:id
\* ===================================================================
\* The handler reads the memory and its capsule and decides; then it deletes
\* the memory with findByIdAndDelete, which answers null without an error
\* when the document is gone already, and updates the capsule with $pull of
\* the id and $inc of stats.totalMemories by -1. Another request can run
\* between the reads and the writes; the two writes are taken together.
\* Store calls: 1 MemoryItem.findById, 2 Capsule.findById,
\* 3 MemoryItem.findByIdAndDelete, 4 Capsule.findByIdAndUpdate.
HttpDeleteRead(r, u, m, failAt) ==
  /\ inFlight[r] = Idle
  /\ last' = Ran(IF DeleteMemoryStatus(u, m, failAt) = 200
                   THEN "delete_memory:await" ELSE "delete_memory",
                 Server, u, MemoryCapsule(m), m,
                 IF DeleteMemoryStatus(u, m, failAt) = 200
                   THEN 0 ELSE DeleteMemoryStatus(u, m, failAt))
  /\ inFlight' = IF DeleteMemoryStatus(u, m, failAt) = 200
                   THEN [inFlight EXCEPT ![r] = [op |-> "delete_memory", user |-> u,
                                                 mid |-> m, cid |-> memories[m].capsule]]
                   ELSE inFlight
  /\ sent' = <<>>
  /\ UNCHANGED <<sockets, registry, pending, clock, store>>

HttpDeleteWrite(r, failAt) ==
  /\ inFlight[r].op = "delete_memory"
  /\ LET u == inFlight[r].user
         m == inFlight[r].mid
         c == inFlight[r].cid
     IN  /\ last' = Ran("delete_memory", Server, u, c, m, IF failAt = 0 THEN 200 ELSE 500)
         /\ memories' = IF failAt # 3
                          THEN [x \in DOMAIN memories \ {m} |-> memories[x]]
                          ELSE memories
         /\ capsules' = IF failAt = 0
                          THEN [capsules EXCEPT ![c].content = SetDelete(@, m),
                                                ![c].totalMemories = @ - 1]
                          ELSE capsules
         /\ sent' = IF failAt = 0
                      THEN <<Emit("memory_deleted", Server, IoTo(RoomName(c)), u, c, <<m>>)>>
                      ELSE <<>>
  /\ inFlight' = [inFlight EXCEPT ![r] = Idle]
  /\ UNCHANGED <<sockets, registry, pending, clock, memSeq>>

\* Memories created while deletes overlap.
NextDeleteRace ==
  \/ \E u \in Users, c \in CapsuleIds, failAt \in 0 .. 4 : HttpCreateMemory(u, c, failAt)
  \/ \E r \in Requests, u \in Users, m \in Range(MemIds), failAt \in 0 .. 2 :
       HttpDeleteRead(r, u, m, failAt)
  \/ \E r \in Requests, failAt \in {0, 3, 4} : HttpDeleteWrite(r, failAt)

SpecDeleteRace == Init /\ [][NextDeleteRace]_vars

\* C30: for every capsule, stats.totalMemories is the number of memory ids in
\* its content list and is not negative, however create and delete requests
\* follow or overlap one another.
C30_TotalMemoriesCountsContent ==
  \A c \in DOMAIN capsules :
    /\ capsules[c].totalMemories = Len(capsules[c].content)
    /\ capsules[c].totalMemories >= 0

====
